---- MODULE Spec2Model ----
(***************************************************************************)
(* A model of src/gpu_utils/cuda_utils.cuh: CudaGlobalPtr (the host/device *)
(* buffer with its two ownership flags), IndexedDataArrayMask,             *)
(* IndexedDataArray (six parallel buffers and the child view) and          *)
(* ProjectionParams (the sampling table).                                  *)
(*                                                                         *)
(* Memory is a sequence of blocks per address space; a pointer is a block  *)
(* number and an element offset, block 0 being no block (offset 0: the     *)
(* null pointer).  The accelerator runtime and the C++ heap are modelled   *)
(* by what the code relies on: an allocation yields a fresh block whose    *)
(* elements are indeterminate, a release of a live block's base ends the   *)
(* block, cudaFree / cudaMemcpy report an error on a bad argument, and     *)
(* delete[] or a host access on a bad argument is undefined behaviour      *)
(* (the process may crash or run on).                                      *)
(***************************************************************************)
EXTENDS Integers, Sequences, FiniteSets, TLC

\* ------------------------------------------------------------------ bounds
MaxSize == 1
MaxHostBlocks == 1
MaxDevBlocks == 1
MaxSteps == 4
MaxLen == 2
MaxStores == 1
MaxArrSteps == 5
MaxClasses == 2
MaxAppends == 5

\* ------------------------------------------------------------- value sets
Vals == {0, 1}
\* an element no one has written yet (new T[n], cudaMalloc)
Indet == -1
BufIds == {1, 2}
Sizes == 0..MaxSize

VARIABLES
    debug,    \* TRUE iff the build defines DEBUG_CUDA
    run,      \* "running" | "terminated" (raise(SIGSEGV), exit, or a crash)
    bufs,     \* the CudaGlobalPtr objects
    hmem,     \* host memory: a sequence of blocks
    dmem,     \* device memory: a sequence of blocks
    last,     \* the last operation: what it was and what releases it issued
    rt,       \* progress of device_alloc(); cp_to_device(); cp_to_host()
    inst,     \* per object, what its last cp_to_device(hostPtr) found and installed
    steps,    \* operations performed so far
    parent,   \* an IndexedDataArray that owns its buffers
    mask,     \* the IndexedDataArrayMask the child was built from
    child,    \* the IndexedDataArray built from (parent, mask)
    tab,      \* a ProjectionParams
    calls,    \* the arguments of the pushBackAll calls made on tab, in order
    part,     \* the ProjectionParams sliced out of tab
    snap      \* what the slice was made from, and the pushBackAll calls made on it

vars == <<debug, run, bufs, hmem, dmem, last, rt, inst, steps, parent, mask, child, tab, calls, part, snap>>

\* ---------------------------------------------------------------- memory
NULL == [blk |-> 0, off |-> 0]
Ptr(k, o) == [blk |-> k, off |-> o]
\* &p[n]
PtrAdd(p, n) == [blk |-> p.blk, off |-> p.off + n]

NewBlock(n) == [cap |-> n, data |-> [i \in 1..n |-> Indet], live |-> TRUE, frees |-> 0]

\* the n elements at p lie inside a live block
ValidRange(mem, p, n) ==
    /\ p.blk \in 1..Len(mem)
    /\ mem[p.blk].live
    /\ p.off + n <= mem[p.blk].cap

\* the n elements at p (defined when ValidRange)
ReadRange(mem, p, n) == [i \in 1..n |-> mem[p.blk].data[p.off + i]]

WriteRange(mem, p, xs) ==
    [mem EXCEPT ![p.blk].data =
        [i \in 1..mem[p.blk].cap |->
            IF i > p.off /\ i <= p.off + Len(xs) THEN xs[i - p.off] ELSE @[i]]]

\* the base of a live block: what an allocation returned and no one released
IsLiveBase(mem, p) == p.blk \in 1..Len(mem) /\ p.off = 0 /\ mem[p.blk].live

\* a release reaches block p.blk: the count of releases issued on it goes up
Release(mem, p) ==
    IF p.blk \in 1..Len(mem)
    THEN [mem EXCEPT ![p.blk].live = FALSE, ![p.blk].frees = @ + 1]
    ELSE mem

\* cudaMalloc(&p, n * sizeof(T)): on failure p keeps its value
cudaMalloc(mem, p, n, ok) ==
    IF ok
    THEN [err |-> FALSE, ptr |-> Ptr(Len(mem) + 1, 0), mem |-> Append(mem, NewBlock(n))]
    ELSE [err |-> TRUE, ptr |-> p, mem |-> mem]

\* a release the runtime rejects: block p.blk stays as it is, but for the count
Rejected(mem, p) ==
    IF p.blk \in 1..Len(mem) THEN [mem EXCEPT ![p.blk].frees = @ + 1] ELSE mem

\* cudaFree(p): a null pointer succeeds and does nothing; anything but the
\* base of a live block is an error and releases nothing
cudaFree(mem, p) ==
    IF p = NULL THEN [err |-> FALSE, mem |-> mem]
    ELSE IF IsLiveBase(mem, p) THEN [err |-> FALSE, mem |-> Release(mem, p)]
    ELSE [err |-> TRUE, mem |-> Rejected(mem, p)]

\* delete [] p: a null pointer does nothing; anything but the base of a
\* live block is undefined behaviour
deleteArray(mem, p) ==
    IF p = NULL THEN [ub |-> FALSE, mem |-> mem]
    ELSE IF IsLiveBase(mem, p) THEN [ub |-> FALSE, mem |-> Release(mem, p)]
    ELSE [ub |-> TRUE, mem |-> Release(mem, p)]

\* new T[n]
newArray(mem, n) == [ptr |-> Ptr(Len(mem) + 1, 0), mem |-> Append(mem, NewBlock(n))]

\* cudaMemcpy(dst, src, n * sizeof(T), kind): copies n elements or reports
\* an error and copies nothing; a bad host range is undefined behaviour
cudaMemcpy(dstMem, dst, srcMem, src, n, hostIsSrc) ==
    LET okDst == ValidRange(dstMem, dst, n)
        okSrc == ValidRange(srcMem, src, n)
        okHost == IF hostIsSrc THEN okSrc ELSE okDst
        okDev == IF hostIsSrc THEN okDst ELSE okSrc
    IN  IF n = 0 THEN [err |-> FALSE, ub |-> FALSE, mem |-> dstMem]
        ELSE IF ~okDev THEN [err |-> TRUE, ub |-> FALSE, mem |-> dstMem]
        ELSE IF ~okHost THEN [err |-> FALSE, ub |-> TRUE, mem |-> dstMem]
        ELSE [err |-> FALSE, ub |-> FALSE,
              mem |-> WriteRange(dstMem, dst, ReadRange(srcMem, src, n))]

\* --------------------------------------------------------- CudaGlobalPtr
\* An object is a record; life tells whether it was constructed / destroyed.
NoBuf == [life |-> "none", size |-> 0, h_ptr |-> NULL, d_ptr |-> NULL,
          h_do_free |-> FALSE, d_do_free |-> FALSE]

\* CudaGlobalPtr<T>()
CudaGlobalPtr0 ==
    [life |-> "live", size |-> 0, h_ptr |-> NULL, d_ptr |-> NULL,
     h_do_free |-> FALSE, d_do_free |-> FALSE]

\* CudaGlobalPtr<T>(size_t size), given the pointer new T[size] returned
CudaGlobalPtr1(p, n) ==
    [life |-> "live", size |-> n, h_ptr |-> p, d_ptr |-> NULL,
     h_do_free |-> TRUE, d_do_free |-> FALSE]

\* CudaGlobalPtr<T>(T * h_start, size_t size)
CudaGlobalPtr2(h_start, n) ==
    [life |-> "live", size |-> n, h_ptr |-> h_start, d_ptr |-> NULL,
     h_do_free |-> FALSE, d_do_free |-> FALSE]

\* CudaGlobalPtr<T>(T * h_start, T * d_start, size_t size)
CudaGlobalPtr3(h_start, d_start, n) ==
    [life |-> "live", size |-> n, h_ptr |-> h_start, d_ptr |-> d_start,
     h_do_free |-> FALSE, d_do_free |-> FALSE]

\* The class declares no copy constructor: the implicit one copies members.
CopyOf(b) == b

\* A method runs on a machine: the object b, both memories, whether the
\* process was terminated (fatal), whether undefined behaviour occurred (ub)
\* and the releases issued so far (rel).
Mach(b, h, d) == [b |-> b, h |-> h, d |-> d, fatal |-> FALSE, ub |-> FALSE, rel |-> <<>>]

\* HANDLE_ERROR(err): HandleError under DEBUG_CUDA, nothing otherwise
HANDLE_ERROR(m, err) == IF debug /\ err THEN [m EXCEPT !.fatal = TRUE] ELSE m

\* device_alloc that marks the device side owned only once cudaMalloc succeeded
device_alloc_checked(m, ok) ==
    IF m.fatal THEN m
    ELSE LET r == cudaMalloc(m.d, m.b.d_ptr, m.b.size, ok)
         IN  HANDLE_ERROR([m EXCEPT !.d = r.mem, !.b.d_ptr = r.ptr,
                                    !.b.d_do_free = ~r.err], r.err)

device_alloc(m, ok) ==
    IF m.fatal THEN m
    ELSE LET m1 == [m EXCEPT !.b.d_do_free = TRUE]
             r == cudaMalloc(m1.d, m1.b.d_ptr, m1.b.size, ok)
         IN  HANDLE_ERROR([m1 EXCEPT !.d = r.mem, !.b.d_ptr = r.ptr], r.err)

device_alloc_size(m, newSize, ok) ==
    IF m.fatal THEN m
    ELSE device_alloc([m EXCEPT !.b.size = newSize], ok)

host_alloc(m) ==
    IF m.fatal THEN m
    ELSE LET r == newArray(m.h, m.b.size)
         IN  [m EXCEPT !.b.h_do_free = TRUE, !.b.h_ptr = r.ptr, !.h = r.mem]

\* cp_to_device that transfers one element too few
cp_to_device_short(m) ==
    IF m.fatal \/ m.b.size = 0 THEN m
    ELSE LET r == cudaMemcpy(m.d, m.b.d_ptr, m.h, m.b.h_ptr, m.b.size - 1, TRUE)
         IN  HANDLE_ERROR([m EXCEPT !.d = r.mem, !.ub = @ \/ r.ub], r.err)

cp_to_device(m) ==
    IF m.fatal THEN m
    ELSE LET r == cudaMemcpy(m.d, m.b.d_ptr, m.h, m.b.h_ptr, m.b.size, TRUE)
         IN  HANDLE_ERROR([m EXCEPT !.d = r.mem, !.ub = @ \/ r.ub], r.err)

cp_to_device_ptr(m, hostPtr) ==
    IF m.fatal THEN m
    ELSE cp_to_device([m EXCEPT !.b.h_ptr = hostPtr])

put_on_device(m, ok) == cp_to_device(device_alloc(m, ok))

put_on_device_size(m, newSize, ok) ==
    IF m.fatal THEN m
    ELSE cp_to_device(device_alloc([m EXCEPT !.b.size = newSize], ok))

cp_to_host(m) ==
    IF m.fatal THEN m
    ELSE LET r == cudaMemcpy(m.h, m.b.h_ptr, m.d, m.b.d_ptr, m.b.size, FALSE)
         IN  HANDLE_ERROR([m EXCEPT !.h = r.mem, !.ub = @ \/ r.ub], r.err)

\* operator[](idx) used to store v: h_ptr[idx] = v
store(m, idx, v) ==
    IF m.fatal THEN m
    ELSE IF ValidRange(m.h, PtrAdd(m.b.h_ptr, idx), 1)
         THEN [m EXCEPT !.h = WriteRange(m.h, PtrAdd(m.b.h_ptr, idx), <<v>>)]
         ELSE [m EXCEPT !.ub = TRUE]

\* free_device that exits on a null pointer, as free_host does
free_device_strict(m) ==
    IF m.fatal THEN m
    ELSE IF debug /\ m.b.d_ptr = NULL THEN [m EXCEPT !.fatal = TRUE]
    ELSE LET e == [side |-> "device", ptr |-> m.b.d_ptr, owned |-> m.b.d_do_free]
             r == cudaFree(m.d, m.b.d_ptr)
             m1 == HANDLE_ERROR([m EXCEPT !.b.d_do_free = FALSE, !.d = r.mem,
                                          !.rel = Append(@, e)], r.err)
         IN  IF m1.fatal THEN m1 ELSE [m1 EXCEPT !.b.d_ptr = NULL]

free_device(m) ==
    IF m.fatal THEN m
    ELSE LET e == [side |-> "device", ptr |-> m.b.d_ptr, owned |-> m.b.d_do_free]
             r == cudaFree(m.d, m.b.d_ptr)
             m1 == HANDLE_ERROR([m EXCEPT !.b.d_do_free = FALSE, !.d = r.mem,
                                          !.rel = Append(@, e)], r.err)
         IN  IF m1.fatal THEN m1 ELSE [m1 EXCEPT !.b.d_ptr = NULL]

free_host(m) ==
    IF m.fatal THEN m
    ELSE IF debug /\ m.b.h_ptr = NULL THEN [m EXCEPT !.fatal = TRUE]
    ELSE LET e == [side |-> "host", ptr |-> m.b.h_ptr, owned |-> m.b.h_do_free]
             r == deleteArray(m.h, m.b.h_ptr)
         IN  [m EXCEPT !.b.h_do_free = FALSE, !.b.h_ptr = NULL, !.h = r.mem,
                       !.ub = @ \/ r.ub, !.rel = Append(@, e)]

free(m) == free_host(free_device(m))

\* a destructor that releases both sides whatever the flags say
destructor_all(m) ==
    LET m1 == free(m)
    IN  IF m1.fatal THEN m1 ELSE [m1 EXCEPT !.b.life = "dead"]

\* ~CudaGlobalPtr()
destructor(m) ==
    LET m1 == IF m.b.d_do_free THEN free_device(m) ELSE m
        m2 == IF m1.fatal THEN m1
              ELSE IF m1.b.h_do_free THEN free_host(m1) ELSE m1
    IN  IF m2.fatal THEN m2 ELSE [m2 EXCEPT !.b.life = "dead"]

\* ------------------------------------- IndexedDataArrayMask, IndexedDataArray
\* the six parallel buffers, in the order the class declares them
NameSeq == <<"weights", "rot_id", "rot_idx", "trans_idx", "ihidden_overs", "class_id">>
Names == {NameSeq[k] : k \in 1..Len(NameSeq)}

NoArray == [life |-> "none", buf |-> [n \in Names |-> NoBuf]]
NoMask == [life |-> "none", jobOrigin |-> NoBuf, jobExtent |-> NoBuf,
           firstPos |-> 0, lastPos |-> 0, weightNum |-> 0, jobNum |-> 0]

\* IndexedDataArrayMask()
IndexedDataArrayMask0 ==
    [life |-> "live", jobOrigin |-> CudaGlobalPtr0, jobExtent |-> CudaGlobalPtr0,
     firstPos |-> 0, lastPos |-> 0, weightNum |-> 0, jobNum |-> 0]

\* setNumberOfJobs that forgets the size of jobExtent
setNumberOfJobs_origin(k, newSize) ==
    [k EXCEPT !.jobNum = newSize, !.jobOrigin.size = newSize]

setNumberOfJobs(k, newSize) ==
    [k EXCEPT !.jobNum = newSize, !.jobOrigin.size = newSize, !.jobExtent.size = newSize]

\* setNumberOfWeights that also moves lastPos to firstPos + newSize
setNumberOfWeights_range(k, newSize) ==
    [k EXCEPT !.weightNum = newSize, !.lastPos = k.firstPos + newSize]

setNumberOfWeights(k, newSize) == [k EXCEPT !.weightNum = newSize]

\* IndexedDataArray()
IndexedDataArray0 == [life |-> "live", buf |-> [n \in Names |-> CudaGlobalPtr0]]

\* a child that takes over the parent's ownership flags with its pointers
IndexedDataArrayShared(p, k) ==
    [life |-> "live",
     buf |-> [n \in Names |->
                [p.buf[n] EXCEPT !.h_ptr = PtrAdd(@, k.firstPos),
                                 !.d_ptr = PtrAdd(@, k.firstPos),
                                 !.size = k.weightNum]]]

\* a child that views the parent from its first element
IndexedDataArrayUnshifted(p, k) ==
    [life |-> "live",
     buf |-> [n \in Names |->
                CudaGlobalPtr3(p.buf[n].h_ptr, p.buf[n].d_ptr, k.weightNum)]]

\* IndexedDataArray(IndexedDataArray &parent, IndexedDataArrayMask &mask)
IndexedDataArrayChild(p, k) ==
    [life |-> "live",
     buf |-> [n \in Names |->
                [CudaGlobalPtr3(PtrAdd(p.buf[n].h_ptr, k.firstPos),
                                PtrAdd(p.buf[n].d_ptr, k.firstPos),
                                k.weightNum)
                 EXCEPT !.d_do_free = FALSE, !.h_do_free = FALSE]]]

\* setDataSize that sets the size of weights only
setDataSize_weights(a, newSize) == [a EXCEPT !.buf["weights"].size = newSize]

setDataSize(a, newSize) == [a EXCEPT !.buf = [n \in Names |-> [@[n] EXCEPT !.size = newSize]]]

\* A method of an array runs on a machine whose object is the array; a call
\* on member n runs on the member's machine and is merged back.
AMach(a, h, d) == [a |-> a, h |-> h, d |-> d, fatal |-> FALSE, ub |-> FALSE, rel |-> <<>>]
Member(am, n) ==
    [b |-> am.a.buf[n], h |-> am.h, d |-> am.d, fatal |-> am.fatal, ub |-> am.ub, rel |-> am.rel]
Merge(am, n, m) ==
    [a |-> [am.a EXCEPT !.buf[n] = m.b], h |-> m.h, d |-> m.d,
     fatal |-> m.fatal, ub |-> m.ub, rel |-> m.rel]

RECURSIVE HostAllocFrom(_, _)
HostAllocFrom(am, k) ==
    IF k > Len(NameSeq) THEN am
    ELSE HostAllocFrom(Merge(am, NameSeq[k], host_alloc(Member(am, NameSeq[k]))), k + 1)

RECURSIVE DeviceAllocFrom(_, _, _)
DeviceAllocFrom(am, k, oks) ==
    IF k > Len(NameSeq) THEN am
    ELSE DeviceAllocFrom(
             Merge(am, NameSeq[k], device_alloc(Member(am, NameSeq[k]), oks[NameSeq[k]])),
             k + 1, oks)

dual_alloc_all(am, oks) == DeviceAllocFrom(HostAllocFrom(am, 1), 1, oks)

\* ~IndexedDataArray(): the members' destructors, last declared first
RECURSIVE DestroyFrom(_, _)
DestroyFrom(am, k) ==
    IF k = 0 THEN am
    ELSE DestroyFrom(Merge(am, NameSeq[k], destructor(Member(am, NameSeq[k]))), k - 1)

array_destructor(am) ==
    LET r == DestroyFrom(am, Len(NameSeq))
    IN  IF r.fatal THEN r ELSE [r EXCEPT !.a.life = "dead"]

\* --------------------------------------------------------- ProjectionParams
\* std::vector is a sequence; element i of the code is element i + 1 here.
Zeros(n) == [i \in 1..n |-> 0]
NoTab == [class_entries |-> <<>>, class_idx |-> <<>>, orientation_num |-> <<>>,
          orientationNumAllClasses |-> 0,
          rots |-> <<>>, tilts |-> <<>>, psis |-> <<>>,
          iorientclasses |-> <<>>, iover_rots |-> <<>>]

\* ProjectionParams()
ProjectionParams0 == [t |-> NoTab, ub |-> FALSE]

\* ProjectionParams(classes): the body writes element 0 of two vectors, which
\* with classes = 0 is a write outside them
ProjectionParams1(classes) ==
    [t |-> [NoTab EXCEPT !.class_entries = Zeros(classes),
                         !.class_idx = Zeros(classes),
                         !.orientation_num = Zeros(classes)],
     ub |-> classes = 0]

\* pushBackAll that counts every entry for the 0:th class
pushBackAll_first(t, iclass, NEWrot, NEWtilt, NEWpsi, NEWiorientclasses, NEWiover_rots) ==
    [t |-> [t EXCEPT !.class_entries =
                         IF Len(@) > 0 THEN [@ EXCEPT ![1] = @ + 1] ELSE @,
                     !.rots = Append(@, NEWrot),
                     !.tilts = Append(@, NEWtilt),
                     !.psis = Append(@, NEWpsi),
                     !.iorientclasses = Append(@, NEWiorientclasses),
                     !.iover_rots = Append(@, NEWiover_rots)],
     ub |-> iclass >= Len(t.class_entries)]

\* pushBackAll that counts the entry as an orientation of the class as well
pushBackAll_counted(t, iclass, NEWrot, NEWtilt, NEWpsi, NEWiorientclasses, NEWiover_rots) ==
    [t |-> [t EXCEPT !.class_entries =
                         IF iclass < Len(@) THEN [@ EXCEPT ![iclass + 1] = @ + 1] ELSE @,
                     !.orientation_num =
                         IF iclass < Len(@) THEN [@ EXCEPT ![iclass + 1] = @ + 1] ELSE @,
                     !.rots = Append(@, NEWrot),
                     !.tilts = Append(@, NEWtilt),
                     !.psis = Append(@, NEWpsi),
                     !.iorientclasses = Append(@, NEWiorientclasses),
                     !.iover_rots = Append(@, NEWiover_rots)],
     ub |-> iclass >= Len(t.class_entries)]

\* pushBackAll that starts the five vectors afresh with the new entry
pushBackAll_restart(t, iclass, NEWrot, NEWtilt, NEWpsi, NEWiorientclasses, NEWiover_rots) ==
    [t |-> [t EXCEPT !.class_entries =
                         IF iclass < Len(@) THEN [@ EXCEPT ![iclass + 1] = @ + 1] ELSE @,
                     !.rots = <<NEWrot>>,
                     !.tilts = <<NEWtilt>>,
                     !.psis = <<NEWpsi>>,
                     !.iorientclasses = <<NEWiorientclasses>>,
                     !.iover_rots = <<NEWiover_rots>>],
     ub |-> iclass >= Len(t.class_entries)]

\* pushBackAll that also starts the class at the entry it appends
pushBackAll_start(t, iclass, NEWrot, NEWtilt, NEWpsi, NEWiorientclasses, NEWiover_rots) ==
    [t |-> [t EXCEPT !.class_entries =
                         IF iclass < Len(@) THEN [@ EXCEPT ![iclass + 1] = @ + 1] ELSE @,
                     !.class_idx =
                         IF iclass < Len(@) THEN [@ EXCEPT ![iclass + 1] = Len(t.rots)] ELSE @,
                     !.rots = Append(@, NEWrot),
                     !.tilts = Append(@, NEWtilt),
                     !.psis = Append(@, NEWpsi),
                     !.iorientclasses = Append(@, NEWiorientclasses),
                     !.iover_rots = Append(@, NEWiover_rots)],
     ub |-> iclass >= Len(t.class_entries)]

\* pushBackAll: class_entries[iclass]++ outside the vector is undefined
\* behaviour; the vector itself is left as it is
pushBackAll(t, iclass, NEWrot, NEWtilt, NEWpsi, NEWiorientclasses, NEWiover_rots) ==
    [t |-> [t EXCEPT !.class_entries =
                         IF iclass < Len(@) THEN [@ EXCEPT ![iclass + 1] = @ + 1] ELSE @,
                     !.rots = Append(@, NEWrot),
                     !.tilts = Append(@, NEWtilt),
                     !.psis = Append(@, NEWpsi),
                     !.iorientclasses = Append(@, NEWiorientclasses),
                     !.iover_rots = Append(@, NEWiover_rots)],
     ub |-> iclass >= Len(t.class_entries)]

\* elements start .. end - 1 of a vector; past its end the copy reads
\* whatever lies there
Range(v, start, end) ==
    [i \in 1..(end - start) |-> IF start + i <= Len(v) THEN v[start + i] ELSE Indet]

\* a slice that takes end, not end - start, for the number of its entries
ProjectionParams3_upto(p, start, end) ==
    [t |-> [class_entries |-> <<end>>, class_idx |-> <<0>>,
            orientation_num |-> <<0>>, orientationNumAllClasses |-> Indet,
            rots |-> Range(p.rots, start, end),
            tilts |-> Range(p.tilts, start, end),
            psis |-> Range(p.psis, start, end),
            iorientclasses |-> Range(p.iorientclasses, start, end),
            iover_rots |-> Range(p.iover_rots, start, end)],
     ub |-> start > end \/ end > Len(p.rots)]

\* a slice that copies from the parent's first element
ProjectionParams3_head(p, start, end) ==
    [t |-> [class_entries |-> <<end - start>>, class_idx |-> <<0>>,
            orientation_num |-> <<0>>, orientationNumAllClasses |-> Indet,
            rots |-> Range(p.rots, 0, end - start),
            tilts |-> Range(p.tilts, 0, end - start),
            psis |-> Range(p.psis, 0, end - start),
            iorientclasses |-> Range(p.iorientclasses, 0, end - start),
            iover_rots |-> Range(p.iover_rots, 0, end - start)],
     ub |-> start > end \/ end > Len(p.rots)]

\* ProjectionParams(parent, start, end): the five vectors are built from the
\* pointer pairs &v[start], &v[end]; orientationNumAllClasses is not
\* initialised.  start > end or end past the vector is undefined behaviour
\* (end - start, an unsigned difference, is kept as the number it stands for).
ProjectionParams3(p, start, end) ==
    [t |-> [class_entries |-> <<end - start>>, class_idx |-> <<0>>,
            orientation_num |-> <<0>>, orientationNumAllClasses |-> Indet,
            rots |-> Range(p.rots, start, end),
            tilts |-> Range(p.tilts, start, end),
            psis |-> Range(p.psis, start, end),
            iorientclasses |-> Range(p.iorientclasses, start, end),
            iover_rots |-> Range(p.iover_rots, start, end)],
     ub |-> start > end \/ end > Len(p.rots)]

NoPart == [life |-> "none", t |-> NoTab]
NoSnap == [start |-> 0, end |-> 0, src |-> NoTab, calls |-> <<>>]

\* ------------------------------------------------- the DualBuffer machine
\* Block 1 of each memory belongs to the caller, who hands pointers to it to
\* the constructors and to cp_to_device(hostPtr).
ExtHost == Ptr(1, 0)
ExtDev == Ptr(1, 0)
ExtBlock(xs) == [cap |-> Len(xs), data |-> xs, live |-> TRUE, frees |-> 0]

\* last: the operation, its object, its size argument (0 when it has none),
\* whether the runtime allocation in it succeeded, and the releases issued
NoLast == [op |-> "none", b |-> 0, arg |-> 0, ok |-> TRUE, rel |-> <<>>]
NoRt == [stage |-> 0, b |-> 0, D |-> <<>>, size |-> 0]
\* inst: no cp_to_device(hostPtr) yet; else the pointer installed and the
\* host pointer the object owned when called (NULL when it owned none)
NoInst == [called |-> FALSE, source |-> NULL, owned |-> NULL]

Init ==
    /\ debug \in BOOLEAN
    /\ run = "running"
    /\ bufs = [i \in BufIds |-> NoBuf]
    /\ hmem = <<ExtBlock([i \in 1..MaxSize |-> 0])>>
    /\ dmem = <<ExtBlock([i \in 1..MaxSize |-> Indet])>>
    /\ last = NoLast
    /\ rt = NoRt
    /\ inst = [i \in BufIds |-> NoInst]
    /\ steps = 0
    /\ parent = NoArray
    /\ mask = NoMask
    /\ child = NoArray
    /\ tab = NoTab
    /\ calls = <<>>
    /\ part = NoPart
    /\ snap = NoSnap

Live(i) == bufs[i].life = "live"
CanStep == run = "running" /\ steps < MaxSteps
\* object 1 is constructed by a constructor, object 2 as a copy
Unborn(i) == bufs[i].life = "none" /\ i = 1
HostRoom == Len(hmem) < 1 + MaxHostBlocks
DevRoom == Len(dmem) < 1 + MaxDevBlocks

\* the host elements a buffer's size covers, when they are all there
HostData(b, h) ==
    IF ValidRange(h, b.h_ptr, b.size) THEN ReadRange(h, b.h_ptr, b.size) ELSE <<>>

\* where the sequence device_alloc(); cp_to_device(); cp_to_host() on one
\* buffer stands after operation op on buffer i
RtNext(i, op) ==
    IF op = "device_alloc" /\ ValidRange(hmem, bufs[i].h_ptr, bufs[i].size)
    THEN [stage |-> 1, b |-> i, D |-> HostData(bufs[i], hmem), size |-> bufs[i].size]
    ELSE IF op = "cp_to_device" /\ rt.stage = 1 /\ rt.b = i THEN [rt EXCEPT !.stage = 2]
    ELSE IF op = "cp_to_host" /\ rt.stage = 2 /\ rt.b = i THEN [rt EXCEPT !.stage = 3]
    ELSE NoRt

InstNext(i, op) ==
    IF op = "cp_to_device_ptr"
    THEN [inst EXCEPT ![i] = [called |-> TRUE, source |-> ExtHost,
                             owned |-> IF bufs[i].h_do_free THEN bufs[i].h_ptr ELSE NULL]]
    ELSE inst

\* the operation op(n) on buffer i ends in machine m
Finish(i, op, m, n, ok) ==
    /\ bufs' = [bufs EXCEPT ![i] = m.b]
    /\ hmem' = m.h
    /\ dmem' = m.d
    /\ run' \in (IF m.fatal THEN {"terminated"}
                 ELSE IF m.ub THEN {"running", "terminated"}
                 ELSE {"running"})
    /\ last' = [op |-> op, b |-> i, arg |-> n, ok |-> ok, rel |-> m.rel]
    /\ rt' = RtNext(i, op)
    /\ inst' = InstNext(i, op)
    /\ steps' = steps + 1
    /\ UNCHANGED <<debug, parent, mask, child, tab, calls, part, snap>>

Me(i) == Mach(bufs[i], hmem, dmem)
Born(b) == Mach(b, hmem, dmem)

Construct0(i) ==
    /\ CanStep /\ Unborn(i)
    /\ Finish(i, "construct", Born(CudaGlobalPtr0), 0, TRUE)

Construct1(i, n) ==
    /\ CanStep /\ Unborn(i) /\ HostRoom
    /\ LET r == newArray(hmem, n)
       IN  Finish(i, "construct_new", Mach(CudaGlobalPtr1(r.ptr, n), r.mem, dmem), n, TRUE)

Construct2(i, n) ==
    /\ CanStep /\ Unborn(i)
    /\ Finish(i, "construct_host", Born(CudaGlobalPtr2(ExtHost, n)), n, TRUE)

Construct3(i, n) ==
    /\ CanStep /\ Unborn(i)
    /\ Finish(i, "construct_both", Born(CudaGlobalPtr3(ExtHost, ExtDev, n)), n, TRUE)

CopyConstruct(i, j) ==
    /\ CanStep /\ bufs[i].life = "none" /\ i # 1 /\ Live(j)
    /\ Finish(i, "copy", Born(CopyOf(bufs[j])), 0, TRUE)

DeviceAlloc(i, ok) ==
    /\ CanStep /\ Live(i) /\ DevRoom
    /\ Finish(i, "device_alloc", device_alloc(Me(i), ok), 0, ok)

DeviceAllocSize(i, n, ok) ==
    /\ CanStep /\ Live(i) /\ DevRoom
    /\ Finish(i, "device_alloc_size", device_alloc_size(Me(i), n, ok), n, ok)

HostAlloc(i) ==
    /\ CanStep /\ Live(i) /\ HostRoom
    /\ Finish(i, "host_alloc", host_alloc(Me(i)), 0, TRUE)

CpToDevice(i) ==
    /\ CanStep /\ Live(i)
    /\ Finish(i, "cp_to_device", cp_to_device(Me(i)), 0, TRUE)

CpToDevicePtr(i) ==
    /\ CanStep /\ Live(i)
    /\ Finish(i, "cp_to_device_ptr", cp_to_device_ptr(Me(i), ExtHost), 0, TRUE)

PutOnDevice(i, ok) ==
    /\ CanStep /\ Live(i) /\ DevRoom
    /\ Finish(i, "put_on_device", put_on_device(Me(i), ok), 0, ok)

PutOnDeviceSize(i, n, ok) ==
    /\ CanStep /\ Live(i) /\ DevRoom
    /\ Finish(i, "put_on_device_size", put_on_device_size(Me(i), n, ok), n, ok)

CpToHost(i) ==
    /\ CanStep /\ Live(i)
    /\ Finish(i, "cp_to_host", cp_to_host(Me(i)), 0, TRUE)

Store(i, idx, v) ==
    /\ CanStep /\ Live(i) /\ idx < bufs[i].size
    /\ Finish(i, "store", store(Me(i), idx, v), 0, TRUE)

FreeDevice(i) ==
    /\ CanStep /\ Live(i)
    /\ Finish(i, "free_device", free_device(Me(i)), 0, TRUE)

FreeHost(i) ==
    /\ CanStep /\ Live(i)
    /\ Finish(i, "free_host", free_host(Me(i)), 0, TRUE)

Free(i) ==
    /\ CanStep /\ Live(i)
    /\ Finish(i, "free", free(Me(i)), 0, TRUE)

Destroy(i) ==
    /\ CanStep /\ Live(i)
    /\ Finish(i, "destroy", destructor(Me(i)), 0, TRUE)

Next ==
    \E i \in BufIds :
        \/ Construct0(i)
        \/ \E n \in Sizes : Construct1(i, n)
        \/ \E n \in Sizes : Construct2(i, n)
        \/ \E n \in Sizes : Construct3(i, n)
        \/ \E j \in BufIds : CopyConstruct(i, j)
        \/ \E ok \in BOOLEAN : DeviceAlloc(i, ok)
        \/ \E n \in Sizes, ok \in BOOLEAN : DeviceAllocSize(i, n, ok)
        \/ HostAlloc(i)
        \/ CpToDevice(i)
        \/ CpToDevicePtr(i)
        \/ \E ok \in BOOLEAN : PutOnDevice(i, ok)
        \/ \E n \in Sizes, ok \in BOOLEAN : PutOnDeviceSize(i, n, ok)
        \/ CpToHost(i)
        \/ \E idx \in 0..(MaxSize - 1), v \in Vals : Store(i, idx, v)
        \/ FreeDevice(i)
        \/ FreeHost(i)
        \/ Free(i)
        \/ Destroy(i)

Spec == Init /\ [][Next]_vars

\* ------------------------------------------------ the IndexedDataArray machine
\* Init is the state after IndexedDataArray parent; the mask is the one the
\* child was built from, an input of the child's constructor.
NoArrLast == [op |-> "none", b |-> "none", name |-> "none", arg |-> 0, rel |-> <<>>]
ArrLast(op, b, rel) == [op |-> op, b |-> b, name |-> "none", arg |-> 0, rel |-> rel]

ArrInit ==
    /\ debug \in BOOLEAN
    /\ run = "running"
    /\ bufs = [i \in BufIds |-> NoBuf]
    /\ hmem = <<>>
    /\ dmem = <<>>
    /\ last = NoArrLast
    /\ rt = NoRt
    /\ inst = [i \in BufIds |-> NoInst]
    /\ steps = 0
    /\ parent = IndexedDataArray0
    /\ mask = NoMask
    /\ child = NoArray
    /\ tab = NoTab
    /\ calls = <<>>
    /\ part = NoPart
    /\ snap = NoSnap

Lens == 0..MaxLen
ArrCanStep == run = "running" /\ steps < MaxArrSteps
\* the masks a caller hands over: firstPos assigned, setNumberOfWeights called
Masks == {setNumberOfWeights([IndexedDataArrayMask0 EXCEPT !.firstPos = f], w) :
              f \in Lens, w \in Lens}
\* cudaMalloc succeeds throughout, or fails for the last of the six buffers
OkPatterns == {[n \in Names |-> n # x] : x \in {"none", NameSeq[Len(NameSeq)]}}
\* the members stored into: the FLOAT buffer and one of the index buffers
StoreNames == {"weights", "class_id"}
\* the stores counted in hmem: elements that are no longer indeterminate
Written == Cardinality({c \in (1..Len(hmem)) \X (1..MaxLen) :
                            c[2] <= hmem[c[1]].cap /\ hmem[c[1]].data[c[2]] # Indet})

ArrFinish(am) ==
    /\ hmem' = am.h
    /\ dmem' = am.d
    /\ run' \in (IF am.fatal THEN {"terminated"}
                 ELSE IF am.ub THEN {"running", "terminated"}
                 ELSE {"running"})
    /\ steps' = steps + 1
    /\ UNCHANGED <<debug, bufs, rt, inst, tab, calls, part, snap>>

Same(a) == AMach(a, hmem, dmem)

SetDataSize(n) ==
    /\ ArrCanStep /\ parent.life = "live"
    /\ parent' = setDataSize(parent, n)
    /\ last' = [ArrLast("setDataSize", "parent", <<>>) EXCEPT !.arg = n]
    /\ ArrFinish(Same(parent)) /\ UNCHANGED <<mask, child>>

DualAllocAll(oks) ==
    /\ ArrCanStep /\ parent.life = "live"
    /\ Len(hmem) + Len(NameSeq) <= Len(NameSeq) * MaxHostBlocks
    /\ Len(dmem) + Len(NameSeq) <= Len(NameSeq) * MaxDevBlocks
    /\ LET am == dual_alloc_all(Same(parent), oks)
       IN  parent' = am.a /\ ArrFinish(am)
    /\ last' = ArrLast("dual_alloc_all", "parent", <<>>)
    /\ UNCHANGED <<mask, child>>

ChildConstruct(k) ==
    /\ ArrCanStep /\ parent.life = "live" /\ child.life = "none"
    /\ child' = IndexedDataArrayChild(parent, k)
    /\ mask' = k
    /\ last' = ArrLast("child_construct", "child", <<>>)
    /\ ArrFinish(Same(parent)) /\ UNCHANGED parent

\* parent.<n>[idx] = v
ParentStore(n, idx, v) ==
    /\ ArrCanStep /\ parent.life = "live" /\ Written < MaxStores
    /\ idx < parent.buf[n].size
    /\ ArrFinish(Merge(Same(parent), n, store(Member(Same(parent), n), idx, v)))
    /\ last' = [op |-> "store", b |-> "parent", name |-> n, arg |-> idx, rel |-> <<>>]
    /\ UNCHANGED <<parent, mask, child>>

\* child.<n>[idx] = v
ChildStore(n, idx, v) ==
    /\ ArrCanStep /\ child.life = "live" /\ Written < MaxStores
    /\ idx < child.buf[n].size
    /\ ArrFinish(Merge(Same(child), n, store(Member(Same(child), n), idx, v)))
    /\ last' = [op |-> "store", b |-> "child", name |-> n, arg |-> idx, rel |-> <<>>]
    /\ UNCHANGED <<parent, mask, child>>

\* an object that was destroyed holds nothing any more
Gone(am) == IF am.a.life = "dead" THEN [life |-> "dead", buf |-> NoArray.buf] ELSE am.a

ChildDestroy ==
    /\ ArrCanStep /\ child.life = "live"
    /\ LET am == array_destructor(Same(child))
       IN  /\ child' = Gone(am)
           /\ ArrFinish(am)
           /\ last' = ArrLast("destroy", "child", am.rel)
    /\ UNCHANGED <<parent, mask>>

ParentDestroy ==
    /\ ArrCanStep /\ parent.life = "live"
    /\ LET am == array_destructor(Same(parent))
       IN  /\ parent' = Gone(am)
           /\ ArrFinish(am)
           /\ last' = ArrLast("destroy", "parent", am.rel)
    /\ UNCHANGED <<child, mask>>

ArrNext ==
    \/ \E n \in Lens : SetDataSize(n)
    \/ \E oks \in OkPatterns : DualAllocAll(oks)
    \/ \E k \in Masks : ChildConstruct(k)
    \/ \E n \in StoreNames, idx \in 0..(MaxLen - 1) : ParentStore(n, idx, 1)
    \/ \E n \in StoreNames, idx \in 0..(MaxLen - 1) : ChildStore(n, idx, 1)
    \/ ChildDestroy
    \/ ParentDestroy

ArrSpec == ArrInit /\ [][ArrNext]_vars

\* ------------------------------------------------ the ProjectionParams machine
\* Init is the state after ProjectionParams() or ProjectionParams(classes);
\* last holds which of the two ran, with what class count, and whether it kept
\* inside its vectors.
Outcomes(ub) == IF ub THEN {"running", "terminated"} ELSE {"running"}

TabInit ==
    /\ debug = FALSE
    /\ bufs = [i \in BufIds |-> NoBuf]
    /\ hmem = <<>>
    /\ dmem = <<>>
    /\ rt = NoRt
    /\ inst = [i \in BufIds |-> NoInst]
    /\ steps = 0
    /\ parent = NoArray
    /\ mask = NoMask
    /\ child = NoArray
    /\ calls = <<>>
    /\ part = NoPart
    /\ snap = NoSnap
    /\ \/ /\ tab = ProjectionParams0.t
          /\ run = "running"
          /\ last = [NoLast EXCEPT !.op = "ProjectionParams0"]
       \/ \E classes \in 0..MaxClasses :
              LET r == ProjectionParams1(classes)
              IN  /\ tab = r.t
                  /\ run \in Outcomes(r.ub)
                  /\ last = [NoLast EXCEPT !.op = "ProjectionParams1",
                                           !.arg = classes, !.ok = ~r.ub]

\* the values one call passes: each column gets values of its own
Entries == {[rot |-> a, tilt |-> 2 + a, psi |-> 4 + a, iorientclass |-> 6 + a, iover_rot |-> 8 + a] :
                a \in Vals}

PushBackAll(iclass, e) ==
    /\ run = "running" /\ Len(calls) < MaxAppends
    /\ LET r == pushBackAll(tab, iclass, e.rot, e.tilt, e.psi, e.iorientclass, e.iover_rot)
       IN  tab' = r.t /\ run' \in Outcomes(r.ub)
    /\ calls' = Append(calls, [iclass |-> iclass, e |-> e])
    /\ UNCHANGED <<debug, bufs, hmem, dmem, last, rt, inst, steps, parent, mask, child, part, snap>>

\* the class ids of the table and the first one past them
TabNext == \E iclass \in 0..Len(tab.class_entries), e \in Entries : PushBackAll(iclass, e)

TabSpec == TabInit /\ [][TabNext]_vars

\* ------------------------------------------- the ProjectionParams slice machine
\* A table is built, a slice is cut out of it once, and both are appended to.
SliceRoom ==
    Len(calls) + Len(snap.calls) + (IF part.life = "none" THEN 0 ELSE 1) < MaxSteps

ParentPush(iclass, e) == SliceRoom /\ PushBackAll(iclass, e)

\* ProjectionParams part(tab, start, end)
Slice(start, end) ==
    /\ run = "running" /\ SliceRoom /\ part.life = "none"
    /\ LET r == ProjectionParams3(tab, start, end)
       IN  part' = [life |-> "live", t |-> r.t] /\ run' \in Outcomes(r.ub)
    /\ snap' = [start |-> start, end |-> end, src |-> tab, calls |-> <<>>]
    /\ UNCHANGED <<debug, bufs, hmem, dmem, last, rt, inst, steps, parent, mask, child, tab, calls>>

\* part.pushBackAll(iclass, ...)
PartPush(iclass, e) ==
    /\ run = "running" /\ SliceRoom /\ part.life = "live"
    /\ LET r == pushBackAll(part.t, iclass, e.rot, e.tilt, e.psi, e.iorientclass, e.iover_rot)
       IN  part' = [part EXCEPT !.t = r.t] /\ run' \in Outcomes(r.ub)
    /\ snap' = [snap EXCEPT !.calls = Append(@, [iclass |-> iclass, e |-> e])]
    /\ UNCHANGED <<debug, bufs, hmem, dmem, last, rt, inst, steps, parent, mask, child, tab, calls>>

\* start and end range over the parent's positions and one past its end
SliceNext ==
    \/ \E iclass \in 0..Len(tab.class_entries), e \in Entries : ParentPush(iclass, e)
    \/ \E start \in 0..(Len(tab.rots) + 1), end \in 0..(Len(tab.rots) + 1) : Slice(start, end)
    \/ \E iclass \in 0..Len(part.t.class_entries), e \in Entries : PartPush(iclass, e)

SliceSpec == TabInit /\ [][SliceNext]_vars

\* -------------------------------------------- the IndexedDataArrayMask machine
\* Init is the state after IndexedDataArrayMask mask; its fields and its two
\* members are public, and the callers assign and call them.
JobNames == {"jobOrigin", "jobExtent"}
MaskLast(op, name, arg, rel) == [op |-> op, b |-> "mask", name |-> name, arg |-> arg, rel |-> rel]

MaskInit ==
    /\ debug \in BOOLEAN
    /\ run = "running"
    /\ bufs = [i \in BufIds |-> NoBuf]
    /\ hmem = <<>>
    /\ dmem = <<>>
    /\ last = NoArrLast
    /\ rt = NoRt
    /\ inst = [i \in BufIds |-> NoInst]
    /\ steps = 0
    /\ parent = NoArray
    /\ mask = IndexedDataArrayMask0
    /\ child = NoArray
    /\ tab = NoTab
    /\ calls = <<>>
    /\ part = NoPart
    /\ snap = NoSnap

MaskCanStep == run = "running" /\ steps < MaxSteps /\ mask.life = "live"
MaskSame == UNCHANGED <<debug, run, bufs, hmem, dmem, rt, inst, parent, child, tab, calls, part, snap>>

SetNumberOfJobs(n) ==
    /\ MaskCanStep
    /\ mask' = setNumberOfJobs(mask, n)
    /\ last' = MaskLast("setNumberOfJobs", "none", n, <<>>)
    /\ steps' = steps + 1 /\ MaskSame

SetNumberOfWeights(n) ==
    /\ MaskCanStep
    /\ mask' = setNumberOfWeights(mask, n)
    /\ last' = MaskLast("setNumberOfWeights", "none", n, <<>>)
    /\ steps' = steps + 1 /\ MaskSame

\* mask.firstPos = f
SetFirstPos(f) ==
    /\ MaskCanStep
    /\ mask' = [mask EXCEPT !.firstPos = f]
    /\ last' = MaskLast("firstPos", "none", f, <<>>)
    /\ steps' = steps + 1 /\ MaskSame

\* mask.lastPos = l
SetLastPos(l) ==
    /\ MaskCanStep
    /\ mask' = [mask EXCEPT !.lastPos = l]
    /\ last' = MaskLast("lastPos", "none", l, <<>>)
    /\ steps' = steps + 1 /\ MaskSame

\* mask.<j>.host_alloc()
JobHostAlloc(j) ==
    /\ MaskCanStep /\ Len(hmem) < Cardinality(JobNames) * MaxHostBlocks
    /\ LET m == host_alloc(Mach(mask[j], hmem, dmem))
       IN  mask' = [mask EXCEPT ![j] = m.b] /\ ArrFinish(m)
    /\ last' = MaskLast("host_alloc", j, 0, <<>>)
    /\ UNCHANGED <<parent, child>>

\* mask.<j>[idx] = v
JobStore(j, idx, v) ==
    /\ MaskCanStep /\ idx < mask[j].size
    /\ ArrFinish(store(Mach(mask[j], hmem, dmem), idx, v))
    /\ last' = MaskLast("store", j, idx, <<>>)
    /\ UNCHANGED <<parent, mask, child>>

\* ~IndexedDataArrayMask(): the body is empty; jobExtent, then jobOrigin are
\* destroyed
MaskDestroy ==
    /\ MaskCanStep
    /\ LET m1 == destructor(Mach(mask.jobExtent, hmem, dmem))
           m2 == destructor([m1 EXCEPT !.b = mask.jobOrigin])
       IN  /\ mask' = IF m2.fatal THEN mask ELSE [NoMask EXCEPT !.life = "dead"]
           /\ ArrFinish(m2)
           /\ last' = MaskLast("destroy", "none", 0, m2.rel)
    /\ UNCHANGED <<parent, child>>

MaskNext ==
    \/ \E n \in Lens : SetNumberOfJobs(n)
    \/ \E n \in Lens : SetNumberOfWeights(n)
    \/ \E f \in Lens : SetFirstPos(f)
    \/ \E l \in Lens : SetLastPos(l)
    \/ \E j \in JobNames : JobHostAlloc(j)
    \/ \E j \in JobNames, idx \in 0..(MaxLen - 1) : JobStore(j, idx, 1)
    \/ MaskDestroy

MaskSpec == MaskInit /\ [][MaskNext]_vars

\* ------------------------------------------------------------ DualBuffer claims
LastBuf == bufs[last.b]
HostEvent(p, o) == [side |-> "host", ptr |-> p, owned |-> o]
DevEvent(p, o) == [side |-> "device", ptr |-> p, owned |-> o]
IsPrefix(s, t) == Len(s) <= Len(t) /\ s = SubSeq(t, 1, Len(s))
\* the releases an operation issued on block k of one side
Hits(rel, side, k) == Cardinality({j \in 1..Len(rel) : rel[j].side = side /\ rel[j].ptr.blk = k})

(* C1: whatever sequence of operations ran, no release of a side's memory    *)
(* is issued while that side's ownership flag is false.                      *)
NeverFreesUnowned ==
    \A k \in 1..Len(last.rel) : last.rel[k].ptr # NULL => last.rel[k].owned

(* C2: a destruction issues one release for each side whose flag is set, on  *)
(* that side's pointer, device first, and none for a side whose flag is      *)
(* clear; the blocks' release counts go up by exactly these releases.  A     *)
(* destruction the process does not survive issued a prefix of them.         *)
DestroyReleasesOwned ==
    [][last'.op = "destroy" =>
        LET b == bufs[last'.b]
            want == (IF b.d_do_free THEN <<DevEvent(b.d_ptr, TRUE)>> ELSE <<>>)
                    \o (IF b.h_do_free THEN <<HostEvent(b.h_ptr, TRUE)>> ELSE <<>>)
        IN  /\ IsPrefix(last'.rel, want)
            /\ run' = "running" => last'.rel = want /\ bufs'[last'.b].life = "dead"
            /\ \A k \in 1..Len(hmem) :
                   hmem'[k].frees = hmem[k].frees + Hits(last'.rel, "host", k)
            /\ \A k \in 1..Len(dmem) :
                   dmem'[k].frees = dmem[k].frees + Hits(last'.rel, "device", k)]_vars

\* a destruction released both sides, each block for the first time
DestroyedBothSides ==
    /\ last.op = "destroy" /\ run = "running" /\ Len(last.rel) = 2
    /\ last.rel[1].ptr.blk > 1 /\ dmem[last.rel[1].ptr.blk].frees = 1
    /\ last.rel[2].ptr.blk > 1 /\ hmem[last.rel[2].ptr.blk].frees = 1
    /\ ~dmem[last.rel[1].ptr.blk].live /\ ~hmem[last.rel[2].ptr.blk].live

(* C3: after device_alloc(); cp_to_device(); cp_to_host() on a buffer whose  *)
(* host pointer held size elements D, the host elements are D again and      *)
(* size is what it was.                                                      *)
RoundTrip ==
    rt.stage = 3 =>
        /\ bufs[rt.b].size = rt.size
        /\ HostData(bufs[rt.b], hmem) = rt.D

\* a round trip of written data through a device block that received it
RoundTripDone ==
    /\ rt.stage = 3 /\ run = "running" /\ rt.size >= 1
    /\ \A k \in 1..rt.size : rt.D[k] \in Vals
    /\ ValidRange(dmem, bufs[rt.b].d_ptr, rt.size)
    /\ ReadRange(dmem, bufs[rt.b].d_ptr, rt.size) = rt.D

(* C6: every device block a buffer allocated is marked owned (d_do_free with *)
(* d_ptr at it) by at most one live object, and is released at most once.    *)
ExclusiveDeviceOwnership ==
    \A k \in 2..Len(dmem) :
        /\ Cardinality({i \in BufIds : /\ bufs[i].life = "live"
                                       /\ bufs[i].d_do_free
                                       /\ bufs[i].d_ptr.blk = k}) <= 1
        /\ dmem[k].frees <= 1

\* free_device / free_host on a side that is not owned or whose pointer is null
DeviceMisuse == last'.op = "free_device" /\ (~bufs[last'.b].d_do_free \/ bufs[last'.b].d_ptr = NULL)
HostMisuse == last'.op = "free_host" /\ (~bufs[last'.b].h_do_free \/ bufs[last'.b].h_ptr = NULL)

(* C7 as stated: a release of a side that is not owned or already null       *)
(* terminates the process under DEBUG_CUDA and otherwise changes nothing,    *)
(* the same on both sides.                                                   *)
ReleaseMisuseUniform ==
    [][DeviceMisuse \/ HostMisuse =>
        IF debug THEN run' = "terminated"
        ELSE run' = "running" /\ UNCHANGED <<bufs, hmem, dmem>>]_vars

(* C7 as amended: free_host on a null pointer exits under DEBUG_CUDA and     *)
(* otherwise releases nothing; free_device on a null pointer never           *)
(* terminates and releases nothing; either leaves the pointer null and the   *)
(* flag clear.  A release of a non-null side that is not owned is not        *)
(* diagnosed in either build: it is issued on the pointer, the pointer is    *)
(* nulled and the flag cleared, and it terminates only under DEBUG_CUDA      *)
(* when cudaFree rejects the pointer.                                        *)
ReleaseMisuseAsCoded ==
    [][LET i == last'.b
           b == bufs[i]
       IN  /\ last'.op = "free_host" /\ b.h_ptr = NULL =>
                 /\ last'.rel = IF debug THEN <<>> ELSE <<HostEvent(NULL, b.h_do_free)>>
                 /\ UNCHANGED <<hmem, dmem>>
                 /\ IF debug THEN run' = "terminated" /\ UNCHANGED bufs
                    ELSE run' = "running" /\ bufs'[i] = [b EXCEPT !.h_do_free = FALSE]
           /\ last'.op = "free_device" /\ b.d_ptr = NULL =>
                 /\ run' = "running" /\ UNCHANGED <<hmem, dmem>>
                 /\ bufs'[i] = [b EXCEPT !.d_do_free = FALSE]
           /\ last'.op = "free_host" /\ b.h_ptr # NULL /\ ~b.h_do_free =>
                 /\ last'.rel = <<HostEvent(b.h_ptr, FALSE)>>
                 /\ hmem' = Release(hmem, b.h_ptr)
                 /\ bufs'[i] = [b EXCEPT !.h_ptr = NULL]
           /\ last'.op = "free_device" /\ b.d_ptr # NULL /\ ~b.d_do_free =>
                 /\ last'.rel = <<DevEvent(b.d_ptr, FALSE)>>
                 /\ run' = "terminated" <=> debug /\ ~IsLiveBase(dmem, b.d_ptr)
                 /\ run' = "running" => bufs'[i] = [b EXCEPT !.d_ptr = NULL]
                 /\ IsLiveBase(dmem, b.d_ptr) => dmem' = Release(dmem, b.d_ptr)]_vars

\* under DEBUG_CUDA a free_device on a null pointer returned
NullDeviceReleaseSurvived ==
    /\ debug /\ run = "running" /\ last.op = "free_device"
    /\ last.rel = <<DevEvent(NULL, FALSE)>>

AllocOp == last'.op \in {"device_alloc", "device_alloc_size"}
FreshDeviceBlock(i) ==
    /\ Len(dmem') = Len(dmem) + 1
    /\ bufs'[i].d_ptr = Ptr(Len(dmem'), 0)
    /\ dmem'[Len(dmem')] = NewBlock(bufs'[i].size)
NewSizeSet(i) ==
    bufs'[i].size = IF last'.op = "device_alloc_size" THEN last'.arg ELSE bufs[i].size

(* C8 as stated: device_alloc sets size to newSize when given, and then      *)
(* either ends with d_do_free set and d_ptr at a fresh block of size         *)
(* elements, or terminates the process.                                      *)
AllocDeviceOrDie ==
    [][AllocOp =>
        \/ run' = "terminated"
        \/ /\ NewSizeSet(last'.b)
           /\ bufs'[last'.b].d_do_free
           /\ FreshDeviceBlock(last'.b)]_vars

(* C8 as amended: device_alloc sets size to newSize when given and sets      *)
(* d_do_free; when cudaMalloc succeeds d_ptr is at a fresh block of size     *)
(* elements; when it fails the process terminates under DEBUG_CUDA only,     *)
(* and otherwise the call returns with d_do_free set and d_ptr as it was     *)
(* (null, or the memory it referred to before).                              *)
AllocDeviceAsCoded ==
    [][AllocOp =>
        LET i == last'.b
        IN  IF last'.ok
            THEN /\ run' = "running" /\ NewSizeSet(i)
                 /\ bufs'[i].d_do_free /\ FreshDeviceBlock(i)
            ELSE /\ run' = "terminated" <=> debug
                 /\ NewSizeSet(i)
                 /\ bufs'[i].d_do_free
                 /\ bufs'[i].d_ptr = bufs[i].d_ptr
                 /\ dmem' = dmem]_vars

\* without DEBUG_CUDA a failed device_alloc returned: owned, and no memory
FailedAllocReturned ==
    /\ ~debug /\ run = "running" /\ last.op \in {"device_alloc", "device_alloc_size"}
    /\ ~last.ok /\ LastBuf.d_do_free /\ LastBuf.d_ptr = NULL

(* C9: once cp_to_device(hostPtr) ran on an object, its destruction never    *)
(* releases the memory at hostPtr, and the host memory the object owned      *)
(* before the call has been released exactly once when the destructor        *)
(* returns.                                                                  *)
HostSourceNotOwned ==
    last.op = "destroy" /\ inst[last.b].called =>
        /\ \A k \in 1..Len(last.rel) :
               last.rel[k].side = "host" => last.rel[k].ptr # inst[last.b].source
        /\ run = "running" /\ inst[last.b].owned # NULL =>
               hmem[inst[last.b].owned.blk].frees = 1

\* ------------------------------------------------------ IndexedDataArray claims
ChildBuilt == child.life = "none" /\ child'.life = "live"
ChildDestroyed == child.life = "live" /\ child'.life = "dead"
ParentDestroyed == parent.life = "live" /\ parent'.life = "dead"
\* the block p is the live base of gets its one release; p null: nothing to do
ReleasedOnce(mem, mem2, p) == IsLiveBase(mem, p) => ~mem2[p.blk].live /\ mem2[p.blk].frees = 1

(* C4: a child built from a parent and a mask owns neither side of any of    *)
(* its six buffers; destroying it issues no release and leaves every block   *)
(* of both memories and the parent as they were; destroying the parent       *)
(* releases each block its buffers own, once, and no block is ever released  *)
(* twice.                                                                    *)
ChildOwnsNothing ==
    [][/\ ChildBuilt =>
              \A n \in Names : ~child'.buf[n].h_do_free /\ ~child'.buf[n].d_do_free
       /\ ChildDestroyed =>
              /\ last'.rel = <<>>
              /\ hmem' = hmem /\ dmem' = dmem
              /\ parent' = parent
       /\ ParentDestroyed =>
              \A n \in Names :
                  /\ parent.buf[n].h_do_free => ReleasedOnce(hmem, hmem', parent.buf[n].h_ptr)
                  /\ parent.buf[n].d_do_free => ReleasedOnce(dmem, dmem', parent.buf[n].d_ptr)
       /\ \A b \in 1..Len(hmem') : hmem'[b].frees <= 1
       /\ \A b \in 1..Len(dmem') : dmem'[b].frees <= 1]_vars

\* the child of an allocated, non-empty parent went first, then the parent:
\* all twelve blocks were released once
ChildGoneParentReleasedOnce ==
    /\ child.life = "dead" /\ parent.life = "dead"
    /\ last.op = "destroy" /\ last.b = "parent"
    /\ mask.weightNum >= 1
    /\ Len(hmem) = Len(NameSeq) /\ Len(dmem) = Len(NameSeq)
    /\ \A b \in 1..Len(NameSeq) :
           /\ hmem[b].cap >= mask.firstPos + mask.weightNum /\ hmem[b].frees = 1
           /\ dmem[b].cap >= mask.firstPos + mask.weightNum /\ dmem[b].frees = 1

\* the child views the block member n of the parent holds now
ViewsParent(n) ==
    /\ child.life = "live" /\ parent.life = "live"
    /\ IsLiveBase(hmem, parent.buf[n].h_ptr)
    /\ child.buf[n].h_ptr.blk = parent.buf[n].h_ptr.blk
\* element i of member n, read through array a
Elem(mem, a, n, i) == mem[a.buf[n].h_ptr.blk].data[a.buf[n].h_ptr.off + i + 1]
InBlock(a, n, i) == a.buf[n].h_ptr.off + i < hmem[a.buf[n].h_ptr.blk].cap

(* C5: a child built with a mask of firstPos f and weightNum w has, in each  *)
(* of its six buffers, the parent's host and device pointers advanced by f   *)
(* and the size w; a store to element i of the child is read back as element *)
(* f + i of the parent, and a store to element f + i of the parent as        *)
(* element i of the child.                                                   *)
ChildAliasesParent ==
    [][/\ ChildBuilt =>
              \A n \in Names :
                  /\ child'.buf[n].h_ptr = PtrAdd(parent.buf[n].h_ptr, mask'.firstPos)
                  /\ child'.buf[n].d_ptr = PtrAdd(parent.buf[n].d_ptr, mask'.firstPos)
                  /\ child'.buf[n].size = mask'.weightNum
       /\ (last'.op = "store" /\ steps' = steps + 1 /\ run' = "running"
               /\ ViewsParent(last'.name)) =>
              LET n == last'.name
                  i == last'.arg
                  f == mask.firstPos
              IN  /\ (last'.b = "child" /\ InBlock(child, n, i)) =>
                          Elem(hmem', parent, n, f + i) = 1
                  /\ (last'.b = "parent" /\ InBlock(parent, n, i)
                          /\ i >= f /\ i - f < child.buf[n].size) =>
                          Elem(hmem', child, n, i - f) = 1]_vars

\* a store through a child that starts at a later element of the parent than
\* the first is read through the parent
ChildStoreSeenInParent ==
    /\ last.op = "store" /\ last.b = "child" /\ run = "running"
    /\ mask.firstPos >= 1 /\ ViewsParent(last.name) /\ InBlock(child, last.name, last.arg)
    /\ Elem(hmem, parent, last.name, mask.firstPos + last.arg) = 1
    /\ Elem(hmem, child, last.name, last.arg) = 1

\* ------------------------------------------------------ ProjectionParams claims
Classes == Len(tab.class_entries)
CallsOn(c) == Cardinality({j \in 1..Len(calls) : calls[j].iclass = c})
InRangeCalls == \A j \in 1..Len(calls) : calls[j].iclass < Classes

(* C10: on a table constructed with C classes, after k pushBackAll calls     *)
(* whose class ids all lie in [0, C), class_entries[c] is the number of      *)
(* those calls made with class c, for every c, and each of rots, tilts,      *)
(* psis, iorientclasses and iover_rots has k elements, the i-th being the    *)
(* value the i-th call passed.                                               *)
AppendCounting ==
    InRangeCalls =>
        /\ \A c \in 0..(Classes - 1) : tab.class_entries[c + 1] = CallsOn(c)
        /\ tab.rots = [j \in 1..Len(calls) |-> calls[j].e.rot]
        /\ tab.tilts = [j \in 1..Len(calls) |-> calls[j].e.tilt]
        /\ tab.psis = [j \in 1..Len(calls) |-> calls[j].e.psi]
        /\ tab.iorientclasses = [j \in 1..Len(calls) |-> calls[j].e.iorientclass]
        /\ tab.iover_rots = [j \in 1..Len(calls) |-> calls[j].e.iover_rot]

\* the calls went to classes 0, 1, 0, 0, 1 of two
AppendedThreeAndTwo ==
    /\ Classes = 2 /\ Len(calls) = 5
    /\ [j \in 1..5 |-> calls[j].iclass] = <<0, 1, 0, 0, 1>>
    /\ tab.class_entries = <<3, 2>>
    /\ Len(tab.rots) = 5 /\ Len(tab.iover_rots) = 5

\* ------------------------------------------------------------- slice claims
Sliced == part.life = "none" /\ part'.life = "live"
\* the arguments of the slice lie inside the parent: 0 <= start <= end <= L
SliceInside(sn) == sn.start <= sn.end /\ sn.end <= Len(sn.src.rots)
SubRange(v, sn) == [i \in 1..(sn.end - sn.start) |-> v[sn.start + i]]

(* C11: a slice (parent, start, end) with 0 <= start <= end <= L has five    *)
(* vectors of length end - start holding the parent's elements start ..      *)
(* end - 1, class_entries = <<end - start>> and class_idx = <<0>>, and the   *)
(* construction leaves the parent as it was; a later pushBackAll on the      *)
(* parent leaves the slice unchanged and a pushBackAll on the slice leaves   *)
(* the parent unchanged.                                                     *)
SliceIsCopy ==
    [][/\ (Sliced /\ SliceInside(snap')) =>
              /\ part'.t.rots = SubRange(tab.rots, snap')
              /\ part'.t.tilts = SubRange(tab.tilts, snap')
              /\ part'.t.psis = SubRange(tab.psis, snap')
              /\ part'.t.iorientclasses = SubRange(tab.iorientclasses, snap')
              /\ part'.t.iover_rots = SubRange(tab.iover_rots, snap')
              /\ part'.t.class_entries = <<snap'.end - snap'.start>>
              /\ part'.t.class_idx = <<0>>
              /\ tab' = tab
       /\ calls' # calls => part' = part
       /\ snap'.calls # snap.calls => tab' = tab]_vars

\* a slice that starts past the parent's first element and is not empty, with
\* an append to the parent after it was cut: the slice still holds the range
ParentGrewSliceKept ==
    /\ part.life = "live" /\ run = "running" /\ SliceInside(snap)
    /\ snap.start >= 1 /\ snap.end > snap.start
    /\ Len(tab.rots) > Len(snap.src.rots)
    /\ part.t.rots = SubRange(tab.rots, snap)
    /\ part.t.class_entries = <<snap.end - snap.start>>

\* -------------------------------------------------- IndexedDataArrayMask claims
JobsSet == last'.op = "setNumberOfJobs" /\ steps' = steps + 1
Backed(mem, b, n) == n > 0 => ValidRange(mem, b.h_ptr, n)

(* C12 as stated: after setNumberOfJobs(n), jobNum and the sizes of          *)
(* jobOrigin and jobExtent are n and elements 0 .. n - 1 of both lie in      *)
(* host memory that was allocated.                                           *)
JobsAllocated ==
    [][JobsSet =>
        LET n == last'.arg
        IN  /\ mask'.jobNum = n /\ mask'.jobOrigin.size = n /\ mask'.jobExtent.size = n
            /\ Backed(hmem', mask'.jobOrigin, n)
            /\ Backed(hmem', mask'.jobExtent, n)]_vars

(* C12 as coded: setNumberOfJobs(n) sets jobNum and the sizes of jobOrigin   *)
(* and jobExtent to n and nothing else: the pointers and ownership flags of  *)
(* both members and both memories are what they were, so the elements are    *)
(* backed by host memory only where a host_alloc() of the member provided it.*)
JobsSizedOnly ==
    [][JobsSet =>
        LET n == last'.arg
        IN  /\ mask'.jobNum = n /\ mask'.jobOrigin.size = n /\ mask'.jobExtent.size = n
            /\ \A j \in JobNames : mask'[j] = [mask[j] EXCEPT !.size = n]
            /\ hmem' = hmem /\ dmem' = dmem]_vars

\* setNumberOfJobs(n), n >= 1, returned on a mask whose members have no memory
JobsSetNothingAllocated ==
    /\ last.op = "setNumberOfJobs" /\ last.arg >= 1 /\ mask.jobNum = last.arg
    /\ mask.jobOrigin.size = last.arg /\ mask.jobOrigin.h_ptr = NULL
    /\ mask.jobExtent.size = last.arg /\ mask.jobExtent.h_ptr = NULL

(* C16 as stated: in every reachable state of a mask, weightNum = lastPos -  *)
(* firstPos.                                                                 *)
WeightNumIsWidth == mask.life = "live" => mask.weightNum = mask.lastPos - mask.firstPos

(* C16 as coded: setNumberOfWeights(n) sets weightNum to n and leaves        *)
(* firstPos and lastPos alone, and an assignment to firstPos or lastPos      *)
(* leaves weightNum alone: weightNum is the argument of the last             *)
(* setNumberOfWeights (0 before the first), whatever the range is.           *)
WeightNumIsLastSet ==
    [][/\ (last'.op = "setNumberOfWeights" /\ steps' = steps + 1) =>
              /\ mask'.weightNum = last'.arg
              /\ mask'.firstPos = mask.firstPos /\ mask'.lastPos = mask.lastPos
       /\ (last'.op \in {"firstPos", "lastPos"} /\ steps' = steps + 1) =>
              mask'.weightNum = mask.weightNum
       /\ (steps = 0 /\ mask.life = "live") => mask.weightNum = 0]_vars

\* setNumberOfWeights returned with a weightNum that is not the width of the range
WeightNumOffRange ==
    /\ last.op = "setNumberOfWeights" /\ mask.weightNum = last.arg
    /\ mask.lastPos >= mask.firstPos
    /\ mask.weightNum # mask.lastPos - mask.firstPos

\* ------------------------------------------------ IndexedDataArray size claims
SameSizes(a) == \A n \in Names : a.buf[n].size = a.buf["weights"].size

(* C13: the six buffers of an IndexedDataArray have the same size after any  *)
(* sequence of its operations; setDataSize(n) leaves all six at n and a      *)
(* child has all six at mask.weightNum.                                      *)
EqualLengths ==
    /\ parent.life = "live" => SameSizes(parent)
    /\ child.life = "live" => \A n \in Names : child.buf[n].size = mask.weightNum
    /\ last.op = "setDataSize" => \A n \in Names : parent.buf[n].size = last.arg

\* an allocated parent of one size with a live child of another
ParentAndChildSized ==
    /\ parent.life = "live" /\ child.life = "live"
    /\ Len(hmem) = Len(NameSeq)
    /\ parent.buf["class_id"].size >= 1 /\ mask.weightNum >= 1
    /\ child.buf["class_id"].size # parent.buf["class_id"].size

\* ------------------------------------------------ ProjectionParams(classes) claims
Built == last.op = "ProjectionParams1" /\ calls = <<>> /\ part.life = "none"

(* C14: ProjectionParams(classes), for every class count including 0, gives  *)
(* class_entries and class_idx of that length with every element 0 and empty *)
(* rots, tilts, psis, iorientclasses and iover_rots, and accesses no         *)
(* position outside its vectors.                                             *)
CtorKeepsInside ==
    Built =>
        /\ last.ok /\ run = "running"
        /\ tab.class_entries = Zeros(last.arg) /\ tab.class_idx = Zeros(last.arg)
        /\ tab.rots = <<>> /\ tab.tilts = <<>> /\ tab.psis = <<>>
        /\ tab.iorientclasses = <<>> /\ tab.iover_rots = <<>>

\* ------------------------------------------------------- class layout claims
\* the calls made with class n, in order
RECURSIVE CallsOf(_, _)
CallsOf(n, k) ==
    IF k = 0 THEN <<>>
    ELSE IF calls[k].iclass = n THEN Append(CallsOf(n, k - 1), calls[k].e)
    ELSE CallsOf(n, k - 1)
\* entry i (from 1) of the table, all five columns
EntryAt(i) == [rot |-> tab.rots[i], tilt |-> tab.tilts[i], psi |-> tab.psis[i],
               iorientclass |-> tab.iorientclasses[i], iover_rot |-> tab.iover_rots[i]]
\* class n lies at class_idx[n] .. class_idx[n] + class_entries[n] - 1 and
\* these are the entries appended with class n
ClassAt(n) ==
    LET from == tab.class_idx[n + 1]
        cnt == tab.class_entries[n + 1]
    IN  /\ from + cnt <= Len(tab.rots)
        /\ [i \in 1..cnt |-> EntryAt(from + i)] = CallsOf(n, Len(calls))

EntriesWithinOrientations ==
    InRangeCalls =>
        \A c \in 0..(Classes - 1) : tab.class_entries[c + 1] <= tab.orientation_num[c + 1]

(* C17 as coded: pushBackAll never writes orientation_num or                 *)
(* orientationNumAllClasses, which stay 0 as constructed, so                 *)
(* class_entries[c] <= orientation_num[c] holds exactly for the classes      *)
(* that have no entry yet.                                                   *)
OrientationNumStaysZero ==
    /\ tab.orientation_num = Zeros(Classes) /\ tab.orientationNumAllClasses = 0
    /\ InRangeCalls =>
           \A c \in 0..(Classes - 1) :
               tab.class_entries[c + 1] <= tab.orientation_num[c + 1] <=> CallsOn(c) = 0

\* a class got an entry and has more entries than orientations
EntryBeyondOrientations ==
    /\ run = "running" /\ InRangeCalls /\ Len(calls) >= 1
    /\ tab.class_entries[calls[1].iclass + 1] > tab.orientation_num[calls[1].iclass + 1]

\* table t2 holds all that t1 held, where it was
Grown(t1, t2) ==
    /\ Len(t2.class_entries) = Len(t1.class_entries)
    /\ \A c \in 1..Len(t1.class_entries) : t2.class_entries[c] >= t1.class_entries[c]
    /\ IsPrefix(t1.rots, t2.rots) /\ IsPrefix(t1.tilts, t2.tilts)
    /\ IsPrefix(t1.psis, t2.psis)
    /\ IsPrefix(t1.iorientclasses, t2.iorientclasses)
    /\ IsPrefix(t1.iover_rots, t2.iover_rots)

(* C18: a table changes only in a pushBackAll on it (the slice constructor   *)
(* leaves its parent as it was), and over every step no class_entries[c]     *)
(* and no length of the five vectors decreases and every element already     *)
(* appended stays where it was, in the table and in a slice of it.           *)
MonotonicGrowth ==
    [][/\ tab' # tab => calls' = Append(calls, calls'[Len(calls')])
       /\ Grown(tab, tab')
       /\ (part.life = "live") =>
              /\ part'.life = "live"
              /\ part'.t # part.t => snap'.calls = Append(snap.calls, snap'.calls[Len(snap'.calls)])
              /\ Grown(part.t, part'.t)]_vars

\* a table that grew, was sliced, and grew again, as did the slice
GrewSlicedGrew ==
    /\ run = "running" /\ part.life = "live" /\ SliceInside(snap)
    /\ Len(snap.src.rots) >= 1 /\ Len(tab.rots) > Len(snap.src.rots)
    /\ Len(snap.calls) >= 1 /\ Len(part.t.rots) = snap.end - snap.start + Len(snap.calls)

FlatLengths(t) == {Len(t.rots), Len(t.tilts), Len(t.psis), Len(t.iorientclasses), Len(t.iover_rots)}
RECURSIVE SumTo(_, _)
SumTo(v, k) == IF k = 0 THEN 0 ELSE v[k] + SumTo(v, k - 1)
Balanced(t) == FlatLengths(t) = {SumTo(t.class_entries, Len(t.class_entries))}

(* C19: in a table constructed with a class count and appended to with      *)
(* class ids of the table, and in a slice (parent, start, end) with          *)
(* 0 <= start <= end <= L appended to with class 0, the five vectors have    *)
(* one length, the sum of class_entries over all classes.                    *)
LengthIsSumOfEntries ==
    /\ (last.op = "ProjectionParams1" /\ InRangeCalls) => Balanced(tab)
    /\ (part.life = "live" /\ SliceInside(snap)
            /\ \A j \in 1..Len(snap.calls) : snap.calls[j].iclass = 0) => Balanced(part.t)

\* two classes with entries, and a slice from inside the table that was appended to
TwoClassesAndSliceBalanced ==
    /\ run = "running" /\ Classes = 2 /\ InRangeCalls
    /\ tab.class_entries[1] >= 1 /\ tab.class_entries[2] >= 1
    /\ part.life = "live" /\ SliceInside(snap) /\ snap.start >= 1
    /\ Len(snap.calls) >= 1 /\ snap.calls[1].iclass = 0
    /\ Balanced(tab) /\ Balanced(part.t)

\* ------------------------------------------------------ size and capacity claims
\* the elements allocated at p: from p to the end of its live block
Capacity(mem, p) == IF ValidRange(mem, p, 0) THEN mem[p.blk].cap - p.off ELSE 0

(* C20: in every reachable state of a CudaGlobalPtr, on a side that is       *)
(* owned size is at most the number of elements allocated on that side.      *)
SizeWithinCapacity ==
    \A i \in BufIds :
        (bufs[i].life = "live" /\ run = "running") =>
            /\ bufs[i].h_do_free => bufs[i].size <= Capacity(hmem, bufs[i].h_ptr)
            /\ bufs[i].d_do_free => bufs[i].size <= Capacity(dmem, bufs[i].d_ptr)

====
